---------------------------- MODULE Spec2Model ----------------------------
(***************************************************************************)
(* A model of the geometric primitives of manifold's structs.h (CCW, sind, *)
(* cosd, MeshRelation::UVW, Box) and of ExportMesh in meshIO.              *)
(*                                                                         *)
(* Numbers: a float is modelled by an integer (exact arithmetic), the two  *)
(* infinities of the default Box by the sentinels Inf and -Inf, which are  *)
(* only ever compared, never added or multiplied.  Where the float width   *)
(* decides the outcome (cosd adds 90.0f to its argument) the rounding of   *)
(* binary32 is modelled explicitly by RoundF32.                            *)
(* A glm::vec3 is a sequence <<x, y, z>>, a glm::mat4x3 a sequence of four *)
(* column vectors.                                                         *)
(***************************************************************************)
EXTENDS Integers, Sequences, FiniteSets, TLC

VARIABLES
    box,      \* the Box object the mutating operations act on
    op,       \* the last operation applied to box
    input,    \* the arguments of the call under analysis
    pc,       \* the position of the call under analysis
    output    \* the result of the call under analysis

vars == <<box, op, input, pc, output>>

(***************************************************************************)
(* Bounds of the model.                                                    *)
(***************************************************************************)
MaxCoord == 1       \* |coordinate| of the points, shifts and scales of SpecBox
MaxUnion == 1       \* coordinate sum of the corner points of SpecUnion
MaxOverlap == 2     \* coordinates of the corner points of SpecOverlap
MaxCorner == 1      \* coordinates of the corner points of SpecTransform
MaxScale == 1       \* |scale factor| of the transforms of SpecTransform
MaxPoint == 3       \* coordinates of the 2D points of SpecCCW
MaxTol == 2         \* largest whole tolerance of SpecCCW
MaxFactor == 2      \* largest uniform scale factor k of SpecCCW
MaxBary == 2        \* largest barycentric table of SpecUVW
MaxTri == 1         \* largest triBary array of SpecUVW
MaxMesh == 2        \* largest array of the meshes of SpecExport
MaxQuarter == 32    \* multiples of 90 degrees tried on each side by SpecTrig
MaxDepth == 3       \* largest n of MengerSponge(n) in SpecFractal

(***************************************************************************)
(* glm helpers, as glm computes them.                                      *)
(***************************************************************************)
Inf == 1000         \* 1.0f / 0.0f; every finite coordinate is far below it

Axes == 1..3

fmin(x, y) == IF y < x THEN y ELSE x

fmax(x, y) == IF x < y THEN y ELSE x

vmin(p, q) == [i \in Axes |-> fmin(p[i], q[i])]

vmax(p, q) == [i \in Axes |-> fmax(p[i], q[i])]

vadd(p, q) == [i \in Axes |-> p[i] + q[i]]

vmul(p, q) == [i \in Axes |-> p[i] * q[i]]

\* glm::mat4x3 * glm::vec4(v, 1.0f): the columns weighted by the components
MatMulPoint(m, v) ==
    [i \in Axes |-> m[1][i] * v[1] + m[2][i] * v[2] + m[3][i] * v[3] + m[4][i]]

(***************************************************************************)
(* struct Box                                                              *)
(***************************************************************************)
BoxDefault ==
    [min |-> <<Inf, Inf, Inf>>, max |-> <<-Inf, -Inf, -Inf>>]

Box(p1, p2) == [min |-> vmin(p1, p2), max |-> vmax(p1, p2)]

Contains(b, other) ==
    /\ \A i \in Axes : other.min[i] >= b.min[i]
    /\ \A i \in Axes : b.max[i] >= other.max[i]

UnionPoint(b, p) == [min |-> vmin(b.min, p), max |-> vmax(b.max, p)]

UnionKeepsMax(b, other) ==
    [min |-> vmin(b.min, other.min), max |-> b.max]

Union(b, other) ==
    [min |-> vmin(b.min, other.min), max |-> vmax(b.max, other.max)]

TransformNoReorder(b, transform) ==
    [min |-> MatMulPoint(transform, b.min),
     max |-> MatMulPoint(transform, b.max)]

Transform(b, transform) ==
    LET minT == MatMulPoint(transform, b.min)
        maxT == MatMulPoint(transform, b.max)
    IN  [min |-> vmin(minT, maxT), max |-> vmax(minT, maxT)]

OperatorPlus(b, shift) ==
    [min |-> vadd(b.min, shift), max |-> vadd(b.max, shift)]

OperatorPlusAssign(b, shift) ==
    [min |-> vadd(b.min, shift), max |-> vadd(b.max, shift)]

OperatorTimes(b, scale) ==
    [min |-> vmul(b.min, scale), max |-> vmul(b.max, scale)]

OperatorTimesAssign(b, scale) ==
    [min |-> vmul(b.min, scale), max |-> vmul(b.max, scale)]

DoesOverlapStrict(b, other) ==
    /\ b.min[1] < other.max[1] /\ b.min[2] < other.max[2]
    /\ b.min[3] < other.max[3]
    /\ b.max[1] > other.min[1] /\ b.max[2] > other.min[2]
    /\ b.max[3] > other.min[3]

DoesOverlap(b, other) ==
    /\ b.min[1] <= other.max[1] /\ b.min[2] <= other.max[2]
    /\ b.min[3] <= other.max[3]
    /\ b.max[1] >= other.min[1] /\ b.max[2] >= other.min[2]
    /\ b.max[3] >= other.min[3]

(***************************************************************************)
(* Inputs of the Box machine.                                              *)
(***************************************************************************)
Coord == -MaxCoord..MaxCoord

Vec3s == [Axes -> Coord]

Perms == {f \in [Axes -> Axes] : \A i, j \in Axes : f[i] = f[j] => i = j}

\* The mat4x3 whose linear part sends axis perm[j] to s[j] times axis j and
\* whose fourth column is the translation t.
AxisTransform(perm, s, t) ==
    [c \in 1..4 |->
        IF c = 4 THEN t
        ELSE [i \in Axes |-> IF perm[c] = i THEN s[c] ELSE 0]]

Diagonal == {t \in Vec3s : t[1] = t[2] /\ t[2] = t[3]}

BoxTransforms ==
    {AxisTransform(perm, s, t) :
        perm \in Perms, s \in [Axes -> {-1, 1}], t \in Diagonal}

ArgBoxes == {BoxDefault} \cup {Box(p, q) : p \in Diagonal, q \in Vec3s}

InRange(b) ==
    \A i \in Axes : b.min[i] \in Coord /\ b.max[i] \in Coord

Idle == "idle"

(***************************************************************************)
(* The Box machine: a box built by Box(p1, p2), then any sequence of its   *)
(* operations.  box is the box the sequence has arrived at: the receiver   *)
(* after an in-place operation (Union of a point, the two assigning       *)
(* operators), the returned box after a const one (Union of a box,         *)
(* Transform, the two binary operators).  Shifts and transforms that would *)
(* leave the coordinate range of the model are not taken.                  *)
(***************************************************************************)
InitBox ==
    /\ \E p1, p2 \in Vec3s : box = Box(p1, p2)
    /\ op = "Box"
    /\ input = Idle /\ pc = Idle /\ output = Idle

DoUnionPoint ==
    /\ \E p \in Vec3s : box' = UnionPoint(box, p)
    /\ op' = "UnionPoint"
    /\ UNCHANGED <<input, pc, output>>

DoUnionBox ==
    /\ \E b \in ArgBoxes : box' = Union(box, b)
    /\ op' = "UnionBox"
    /\ UNCHANGED <<input, pc, output>>

DoTransform ==
    /\ \E t \in BoxTransforms :
          /\ InRange(Transform(box, t))
          /\ box' = Transform(box, t)
    /\ op' = "Transform"
    /\ UNCHANGED <<input, pc, output>>

DoPlus ==
    /\ \E shift \in Vec3s :
          /\ InRange(OperatorPlus(box, shift))
          /\ box' = OperatorPlus(box, shift)
    /\ op' = "operator+"
    /\ UNCHANGED <<input, pc, output>>

DoPlusAssign ==
    /\ \E shift \in Vec3s :
          /\ InRange(OperatorPlusAssign(box, shift))
          /\ box' = OperatorPlusAssign(box, shift)
    /\ op' = "operator+="
    /\ UNCHANGED <<input, pc, output>>

DoTimes ==
    /\ \E scale \in Vec3s : box' = OperatorTimes(box, scale)
    /\ op' = "operator*"
    /\ UNCHANGED <<input, pc, output>>

DoTimesAssign ==
    /\ \E scale \in Vec3s : box' = OperatorTimesAssign(box, scale)
    /\ op' = "operator*="
    /\ UNCHANGED <<input, pc, output>>

NextBox ==
    \/ DoUnionPoint
    \/ DoUnionBox
    \/ DoTransform
    \/ DoPlus
    \/ DoPlusAssign
    \/ DoTimes
    \/ DoTimesAssign

SpecBox == InitBox /\ [][NextBox]_vars

MinLeMax(b) == \A i \in Axes : b.min[i] <= b.max[i]

\* C1: a box built by Box(p1, p2) keeps min <= max componentwise after any
\* sequence of Union(point), Union(box), Transform, operator+, operator+=,
\* operator* and operator*=, negative scale components included.
C1_MinLeMaxAfterAnyMutation == MinLeMax(box)

\* Every operation but operator* and operator*= keeps min <= max.
MinLeMaxKeptByAllButTimes ==
    [][(MinLeMax(box) /\ op' \notin {"operator*", "operator*="})
          => MinLeMax(box')]_vars


(***************************************************************************)
(* Box::Union(box) and Box::Contains on three boxes a, b, c.               *)
(***************************************************************************)
UnitBox == Box(<<0, 0, 0>>, <<1, 1, 1>>)

FarBox == Box(<<2, 2, 2>>, <<3, 3, 3>>)

UnionPoints ==
    {p \in [Axes -> 0..MaxUnion] : p[1] + p[2] + p[3] <= MaxUnion}

UnionBoxes ==
    {BoxDefault, UnitBox, FarBox} \cup {Box(p, q) : p, q \in UnionPoints}

InitUnion ==
    /\ input \in [a : UnionBoxes, b : UnionBoxes, c : UnionBoxes]
    /\ pc = "call"
    /\ output = Idle
    /\ box = BoxDefault /\ op = Idle

CallUnion ==
    /\ pc = "call"
    /\ output' =
          [ab        |-> Union(input.a, input.b),
           ba        |-> Union(input.b, input.a),
           ab_c      |-> Union(Union(input.a, input.b), input.c),
           a_bc      |-> Union(input.a, Union(input.b, input.c)),
           idb       |-> Union(BoxDefault, input.b),
           containsA |-> Contains(Union(input.a, input.b), input.a),
           containsB |-> Contains(Union(input.a, input.b), input.b)]
    /\ pc' = "done"
    /\ UNCHANGED <<box, op, input>>

NextUnion == CallUnion

SpecUnion == InitUnion /\ [][NextUnion]_vars

OverlapPoints == [Axes -> 0..MaxOverlap]

OverlapCubes ==
    {Box(p, q) : p, q \in {t \in OverlapPoints : t[1] = t[2] /\ t[2] = t[3]}}

OverlapBoxes ==
    {BoxDefault, FarBox} \cup {Box(p, q) : p, q \in OverlapPoints}

InitOverlap ==
    /\ input \in [a : OverlapBoxes, b : OverlapCubes \cup {BoxDefault, FarBox}]
    /\ pc = "call"
    /\ output = Idle
    /\ box = BoxDefault /\ op = Idle

CallOverlap ==
    /\ pc = "call"
    /\ output' = [ab |-> DoesOverlap(input.a, input.b),
                  ba |-> DoesOverlap(input.b, input.a)]
    /\ pc' = "done"
    /\ UNCHANGED <<box, op, input>>

NextOverlap == CallOverlap

SpecOverlap == InitOverlap /\ [][NextOverlap]_vars

\* The closed intervals [a.min, a.max] and [b.min, b.max] share a point on
\* axis i.  Two closed intervals that share a point share an endpoint of
\* one of them.
SharePoint(a, b, i) ==
    \E v \in {a.min[i], a.max[i], b.min[i], b.max[i]} :
        /\ a.min[i] <= v /\ v <= a.max[i]
        /\ b.min[i] <= v /\ v <= b.max[i]

\* C9: for boxes with min <= max, a.DoesOverlap(b) is true exactly when the
\* closed intervals of a and b share a point on each of the three axes
\* (touching counts), it is symmetric, and the unit box and
\* Box({2,2,2},{3,3,3}) do not overlap.
C9_DoesOverlapClosed ==
    (pc = "done" /\ MinLeMax(input.a) /\ MinLeMax(input.b)) =>
        /\ output.ab <=> \A i \in Axes : SharePoint(input.a, input.b, i)
        /\ output.ab = output.ba
        /\ (input.a = UnitBox /\ input.b = FarBox) => ~output.ab

\* a and b touch in the single corner (1,1,1) and overlap
C9_Witness ==
    /\ pc = "done"
    /\ input.a = UnitBox
    /\ input.b = Box(<<1, 1, 1>>, <<2, 2, 2>>)
    /\ output.ab /\ output.ba

(***************************************************************************)
(* Box::Transform on a box b and a transform T.                            *)
(***************************************************************************)
Scales == {s \in -MaxScale..MaxScale : s # 0}

\* a rotation by 45 degrees about z (scaled): not axis-aligned
Rot45 == <<(<<1, 1, 0>>), (<<-1, 1, 0>>), (<<0, 0, 1>>), (<<0, 0, 0>>)>>

Translations == {<<0, 0, 0>>, <<1, 1, 1>>, <<-1, 2, 0>>}

Transforms ==
    {Rot45} \cup
    {AxisTransform(perm, s, t) :
        perm \in Perms, s \in [Axes -> Scales], t \in Translations}

CornerPoints == [Axes -> 0..MaxCorner]

InitTransform ==
    /\ input \in [b : {Box(p, q) : p, q \in CornerPoints}, T : Transforms]
    /\ pc = "call"
    /\ output = Idle
    /\ box = BoxDefault /\ op = Idle

CallTransform ==
    /\ pc = "call"
    /\ output' = Transform(input.b, input.T)
    /\ pc' = "done"
    /\ UNCHANGED <<box, op, input>>

NextTransform == CallTransform

SpecTransform == InitTransform /\ [][NextTransform]_vars

\* The linear part is a signed, scaled axis permutation: one non-zero entry
\* in every column and in every row.
IsAxisAligned(m) ==
    /\ \A c \in Axes : Cardinality({i \in Axes : m[c][i] # 0}) = 1
    /\ \A i \in Axes : Cardinality({c \in Axes : m[c][i] # 0}) = 1

Corners(b) ==
    {[i \in Axes |-> IF pick[i] THEN b.max[i] ELSE b.min[i]] :
        pick \in [Axes -> BOOLEAN]}

ContainsPoint(b, p) == \A i \in Axes : b.min[i] <= p[i] /\ p[i] <= b.max[i]

\* C10: for a box b with min <= max and an axis-aligned affine transform T,
\* b.Transform(T) has min <= max and contains the image under T of all
\* eight corners of b.
C10_TransformBounds ==
    (pc = "done" /\ MinLeMax(input.b) /\ IsAxisAligned(input.T)) =>
        /\ MinLeMax(output)
        /\ \A p \in Corners(input.b) :
              ContainsPoint(output, MatMulPoint(input.T, p))

\* a transform that swaps x and y and mirrors an axis, on the unit box
C10_Witness ==
    /\ pc = "done"
    /\ input.b = UnitBox
    /\ IsAxisAligned(input.T)
    /\ input.T[1] = <<0, -1, 0>> /\ input.T[2] = <<1, 0, 0>>
    /\ input.T[4] = <<1, 1, 1>>
    /\ output = [min |-> <<1, 0, 1>>, max |-> <<2, 1, 2>>]
    /\ MatMulPoint(input.T, <<1, 0, 1>>) \notin {output.min, output.max}

(***************************************************************************)
(* CCW.  A tolerance is a positive rational [num, den].                    *)
(***************************************************************************)
kTolerance == [num |-> 1, den |-> 100000]

Sub2(p, q) == <<p[1] - q[1], p[2] - q[2]>>

Dot2(p, q) == p[1] * q[1] + p[2] * q[2]

Area(p0, p1, p2) ==
    LET v1 == Sub2(p1, p0)
        v2 == Sub2(p2, p0)
    IN  v1[1] * v2[2] - v1[2] * v2[1]

Base2(p0, p1, p2) ==
    LET v1 == Sub2(p1, p0)
        v2 == Sub2(p2, p0)
    IN  fmax(Dot2(v1, v1), Dot2(v2, v2))

\* area * area <= base2 * tol * tol.  The left side is an integer, so it is
\* compared with the integer part of base2 * num^2 / den^2, taken in two
\* divisions to stay within the machine integers.
WithinTolUnsquared(area, base2, tol) ==
    area * area <= ((base2 * tol.num) \div tol.den)

WithinTol(area, base2, tol) ==
    area * area <= ((base2 * tol.num * tol.num) \div tol.den) \div tol.den

CCWOneSide(p0, p1, p2, tol) ==
    LET v1 == Sub2(p1, p0)
        area == Area(p0, p1, p2)
    IN  IF WithinTol(area, Dot2(v1, v1), tol) THEN 0
        ELSE IF area > 0 THEN 1 ELSE -1

CCW(p0, p1, p2, tol) ==
    LET area == Area(p0, p1, p2)
        base2 == Base2(p0, p1, p2)
    IN  IF WithinTol(area, base2, tol) THEN 0
        ELSE IF area > 0 THEN 1 ELSE -1

Points2 == [1..2 -> 0..MaxPoint]

Tols == {kTolerance} \cup {[num |-> t, den |-> 1] : t \in 1..MaxTol}

ScalePoint(k, p) == <<k * p[1], k * p[2]>>

ScaleTol(k, tol) == [num |-> k * tol.num, den |-> tol.den]

InitCCW ==
    /\ input \in [p0 : Points2, p1 : Points2, p2 : Points2,
                  tol : Tols, k : 1..MaxFactor]
    /\ pc = "call"
    /\ output = Idle
    /\ box = BoxDefault /\ op = Idle

CallCCW ==
    /\ pc = "call"
    /\ LET sp0 == ScalePoint(input.k, input.p0)
           sp1 == ScalePoint(input.k, input.p1)
           sp2 == ScalePoint(input.k, input.p2)
       IN  output' =
             [r         |-> CCW(input.p0, input.p1, input.p2, input.tol),
              swapped   |-> CCW(input.p0, input.p2, input.p1, input.tol),
              scaled    |-> CCW(sp0, sp1, sp2, input.tol),
              scaledTol |-> CCW(sp0, sp1, sp2, ScaleTol(input.k, input.tol))]
    /\ pc' = "done"
    /\ UNCHANGED <<box, op, input>>

NextCCW == CallCCW

SpecCCW == InitCCW /\ [][NextCCW]_vars

\* C3 as claimed: CCW(k*p0, k*p1, k*p2, tol) == CCW(p0, p1, p2, tol) for
\* every uniform scale factor k > 0 and the same tol.
C3_ScaleInvariantSameTol ==
    pc = "done" => output.scaled = output.r

\* C3 as amended: CCW is invariant under a uniform scaling of the three
\* points by k > 0 when tol is scaled by k as well:
\* CCW(k*p0, k*p1, k*p2, k*tol) == CCW(p0, p1, p2, tol).
C3_ScaleInvariantScaledTol ==
    pc = "done" => output.scaledTol = output.r

\* a triple within tolerance that leaves it when scaled by 2 with tol fixed
C3_Witness ==
    /\ pc = "done"
    /\ input.k = 2
    /\ Area(input.p0, input.p1, input.p2) # 0
    /\ output.r = 0
    /\ output.scaled # 0
    /\ output.scaledTol = 0

\* C4: CCW(p0, p1, p2, tol) == -CCW(p0, p2, p1, tol); the result is one of
\* -1, 0, +1; it is 0 exactly when area^2 <= base2 * tol^2 and otherwise the
\* sign of the area; (0,0),(1,0),(0,1) gives +1 and (0,0),(1,0),(2,0) gives
\* 0 at tol = 1e-5.
C4_Antisymmetric ==
    pc = "done" =>
        LET area == Area(input.p0, input.p1, input.p2)
            base2 == Base2(input.p0, input.p1, input.p2)
        IN  /\ output.r = -output.swapped
            /\ output.r \in {-1, 0, 1}
            /\ output.r = 0 <=> WithinTol(area, base2, input.tol)
            /\ output.r = 1 => area > 0
            /\ output.r = -1 => area < 0
            /\ (/\ input.p0 = <<0, 0>> /\ input.p1 = <<1, 0>>
                /\ input.p2 = <<0, 1>> /\ input.tol = kTolerance)
                  => output.r = 1
            /\ (/\ input.p0 = <<0, 0>> /\ input.p1 = <<1, 0>>
                /\ input.p2 = <<2, 0>> /\ input.tol = kTolerance)
                  => output.r = 0

\* a clockwise triple outside tolerance whose swap is counter-clockwise
C4_Witness ==
    /\ pc = "done"
    /\ input.p0 = <<0, 0>> /\ input.p1 = <<0, 1>> /\ input.p2 = <<1, 0>>
    /\ input.tol = kTolerance
    /\ output.r = -1
    /\ output.swapped = 1

(***************************************************************************)
(* MeshRelation::UVW.  C++ indices are 0-based, sequences 1-based.         *)
(***************************************************************************)
Zero3 == <<0, 0, 0>>

\* uvw(0.0f) with uvw[i] = 1
OneHot(i) == [j \in Axes |-> IF j = i + 1 THEN 1 ELSE 0]

\* the three reads and the write of UVW stay inside their arrays
UVWInBounds(rel, tri, vert) ==
    /\ tri >= 0 /\ tri < Len(rel.triBary)
    /\ vert >= 0 /\ vert < 3
    /\ LET idx == rel.triBary[tri + 1].vertBary[vert + 1]
       IN  IF idx < 0 THEN idx + 3 >= 0
           ELSE idx < Len(rel.barycentric)

UVWSpecEncoding(rel, tri, vert) ==
    LET idx == rel.triBary[tri + 1].vertBary[vert + 1]
    IN  IF idx < 0 THEN OneHot(-idx - 1)
        ELSE rel.barycentric[idx + 1]

UVW(rel, tri, vert) ==
    LET idx == rel.triBary[tri + 1].vertBary[vert + 1]
    IN  IF idx < 0 THEN OneHot(idx + 3)
        ELSE rel.barycentric[idx + 1]

BaryVecs == {v \in [Axes -> -1..1] : v[1] + v[2] + v[3] = 1}

\* what a read or write outside the arrays (undefined behaviour) can
\* produce: the process dies, or the call returns whatever it found
UndefinedOutcomes ==
    {[kind |-> "crash", uvw |-> Zero3]} \cup
    {[kind |-> "return", uvw |-> g] : g \in BaryVecs \cup {Zero3}}

UVWOutcomes(rel, tri, vert) ==
    IF UVWInBounds(rel, tri, vert)
    THEN {[kind |-> "return", uvw |-> UVW(rel, tri, vert)]}
    ELSE UndefinedOutcomes

Tables == UNION {[1..n -> BaryVecs] : n \in 0..MaxBary}

VertBarys == {<<i, i + 1, i + 2>> : i \in -5..MaxBary}

\* triBary arrays of n triangles, triangle j descending from triangle j
TriBarys ==
    {[j \in 1..n |-> [meshID |-> 0, tri |-> j - 1, vertBary |-> v]] :
        n \in 0..MaxTri, v \in VertBarys}

InitUVW ==
    /\ input \in [rel : [barycentric : Tables, triBary : TriBarys],
                  tri : -1..MaxTri, vert : 0..2]
    /\ pc = "call"
    /\ output = Idle
    /\ box = BoxDefault /\ op = Idle

CallUVW ==
    /\ pc = "call"
    /\ output' \in UVWOutcomes(input.rel, input.tri, input.vert)
    /\ pc' = "done"
    /\ UNCHANGED <<box, op, input>>

NextUVW == CallUVW

SpecUVW == InitUVW /\ [][NextUVW]_vars

ValidTri == input.tri >= 0 /\ input.tri < Len(input.rel.triBary)

Idx == input.rel.triBary[input.tri + 1].vertBary[input.vert + 1]

Sum3(v) == v[1] + v[2] + v[3]

\* C5 as claimed: for a reference -(k+1), k in {0,1,2}, UVW returns the
\* one-hot vector with component k equal to 1; for a non-negative reference
\* idx it returns barycentric[idx].
C5_SentinelComponentK ==
    (pc = "done" /\ ValidTri) =>
        /\ \A k \in 0..2 : Idx = -(k + 1) =>
              output = [kind |-> "return", uvw |-> OneHot(k)]
        /\ (Idx >= 0 /\ Idx < Len(input.rel.barycentric)) =>
              output = [kind |-> "return",
                        uvw |-> input.rel.barycentric[Idx + 1]]

\* C5 as amended: for a reference -(k+1), k in {0,1,2}, UVW returns the
\* one-hot vector with component 2-k (that is, component idx+3) equal to 1
\* and the other two 0, so it sums to 1; for a non-negative reference idx
\* inside the table it returns barycentric[idx] unchanged.
C5_SentinelComponentIdxPlus3 ==
    (pc = "done" /\ ValidTri) =>
        /\ \A k \in 0..2 : Idx = -(k + 1) =>
              /\ output = [kind |-> "return", uvw |-> OneHot(2 - k)]
              /\ output.uvw[(2 - k) + 1] = 1
              /\ Sum3(output.uvw) = 1
        /\ (Idx >= 0 /\ Idx < Len(input.rel.barycentric)) =>
              output = [kind |-> "return",
                        uvw |-> input.rel.barycentric[Idx + 1]]

\* the reference -1 resolves to the last corner, not the first
C5_Witness ==
    /\ pc = "done" /\ ValidTri
    /\ Idx = -1
    /\ output = [kind |-> "return", uvw |-> <<0, 0, 1>>]

\* C6: when the reference is a non-negative index >= the size of the
\* barycentric table, or a negative value below -3, or tri is no valid
\* index of triBary, UVW ends in a logic error.
C6_OutOfRangeIsLogicError ==
    (pc = "done" /\ ~UVWInBounds(input.rel, input.tri, input.vert)) =>
        output.kind = "logicErr"

(***************************************************************************)
(* ExportMesh.  Only the lengths of the arrays decide its control flow:    *)
(* nTri = triVerts.size(), nPos = vertPos.size(), nNormal =                *)
(* vertNormal.size(), nColor = options.mat.vertColor.size().               *)
(***************************************************************************)
NoOutcome == [outcome |-> "running", printed |-> FALSE, written |-> FALSE]

MeshIsEmpty(in) == in.nTri = 0

NormalsUnchecked(in) == TRUE

NormalsOk(in) == in.faceted \/ in.nNormal = in.nPos

ColorsOk(in) == in.nColor = 0 \/ in.nPos = in.nColor

InitExport ==
    /\ input \in [nTri : 0..MaxMesh, nPos : 0..MaxMesh, nNormal : 0..MaxMesh,
                  nColor : 0..MaxMesh, faceted : BOOLEAN]
    /\ pc = "entry"
    /\ output = NoOutcome
    /\ box = BoxDefault /\ op = Idle

\* lines 77-81: an empty mesh is reported on std::cout and not saved
EmptyReturn ==
    /\ pc = "entry"
    /\ MeshIsEmpty(input)
    /\ output' = [output EXCEPT !.outcome = "returned", !.printed = TRUE]
    /\ pc' = "exit"
    /\ UNCHANGED <<box, op, input>>

\* lines 83-114: the scene, its material and its one mesh are set up
BuildScene ==
    /\ pc = "entry"
    /\ ~MeshIsEmpty(input)
    /\ pc' = "alloc"
    /\ UNCHANGED <<box, op, input, output>>

\* lines 116-128: the two length assertions throw userErr
AllocThrows ==
    /\ pc = "alloc"
    /\ ~(NormalsOk(input) /\ ColorsOk(input))
    /\ output' = [output EXCEPT !.outcome = "userErr"]
    /\ pc' = "exit"
    /\ UNCHANGED <<box, op, input>>

AllocPasses ==
    /\ pc = "alloc"
    /\ NormalsOk(input) /\ ColorsOk(input)
    /\ pc' = "fill"
    /\ UNCHANGED <<box, op, input, output>>

\* lines 130-153: vertices, normals, colours and faces are copied
FillScene ==
    /\ pc = "fill"
    /\ pc' = "export"
    /\ UNCHANGED <<box, op, input, output>>

\* line 164: the exporter writes the file and succeeds or fails
ExportWrite ==
    /\ pc = "export"
    /\ \E ok \in BOOLEAN :
          pc' = IF ok THEN "success" ELSE "failure"
    /\ output' = [output EXCEPT !.written = TRUE]
    /\ UNCHANGED <<box, op, input>>

\* lines 166-168: the scene is deleted and a failed export throws userErr
CheckResult ==
    /\ pc \in {"success", "failure"}
    /\ output' = [output EXCEPT
                     !.outcome = IF pc = "success" THEN "returned"
                                 ELSE "userErr"]
    /\ pc' = "exit"
    /\ UNCHANGED <<box, op, input>>

NextExport ==
    \/ EmptyReturn
    \/ BuildScene
    \/ AllocThrows
    \/ AllocPasses
    \/ FillScene
    \/ ExportWrite
    \/ CheckResult

SpecExport == InitExport /\ [][NextExport]_vars

NormalsMismatch == ~input.faceted /\ input.nNormal # input.nPos

ColorsMismatch == input.nColor # 0 /\ input.nColor # input.nPos

\* C7 as claimed: with faceted == false and vertNormal of another length
\* than vertPos (a mesh with zero triangles included), or with a non-empty
\* vertColor of another length than vertPos, ExportMesh ends with a userErr
\* and never reaches the exporter's write step.
C7_MismatchIsUserErr ==
    (NormalsMismatch \/ ColorsMismatch) =>
        /\ ~output.written
        /\ pc = "exit" => output.outcome = "userErr"

\* C7 as amended: on a mesh with at least one triangle, faceted == false
\* with vertNormal of another length than vertPos, or a non-empty vertColor
\* of another length than vertPos, ends with a userErr and never reaches the
\* exporter's write step; a mesh with zero triangles returns normally, with
\* a message and without a userErr, and nothing is written either.
C7_MismatchIsUserErrUnlessEmpty ==
    /\ ((NormalsMismatch \/ ColorsMismatch) /\ input.nTri > 0) =>
          /\ ~output.written
          /\ pc = "exit" => output.outcome = "userErr"
    /\ input.nTri = 0 =>
          /\ ~output.written
          /\ pc = "exit" => (output.outcome = "returned" /\ output.printed)

\* a mesh with a triangle and too few normals has ended with a userErr
C7_Witness ==
    /\ pc = "exit"
    /\ input.nTri > 0 /\ ~input.faceted /\ input.nNormal < input.nPos
    /\ input.nColor = 0
    /\ output.outcome = "userErr"
    /\ ~output.written

(***************************************************************************)
(* sind and cosd on whole numbers of degrees.  A float result is           *)
(* [exact |-> TRUE, v |-> -1, 0 or 1] or, for sin and cos of an angle that *)
(* is no multiple of 90 degrees, [exact |-> FALSE, v |-> 0]: a value that  *)
(* is none of -1, 0, 1.                                                    *)
(***************************************************************************)
F32Precision == 24      \* the significand bits of float

Abs(a) == IF a < 0 THEN -a ELSE a

RECURSIVE Ulp(_)
\* the spacing of the floats around the whole number a >= 0
Ulp(a) == IF a < 2^F32Precision THEN 1 ELSE 2 * Ulp(a \div 2)

\* the float nearest to the whole number v, ties to the even significand
RoundF32(v) ==
    LET a == Abs(v)
        u == Ulp(a)
        q == a \div u
        r == a % u
        m == IF 2 * r < u THEN q
             ELSE IF 2 * r > u THEN q + 1
             ELSE IF q % 2 = 0 THEN q ELSE q + 1
    IN  IF v < 0 THEN -(m * u) ELSE m * u

\* remquo(x, y, &quo) for whole x >= 0, y > 0: the quotient rounded to the
\* nearest integer, ties to even, its low three bits, and the remainder
Remquo(x, y) ==
    LET q == x \div y
        r == x % y
        n == IF 2 * r < y THEN q
             ELSE IF 2 * r > y THEN q + 1
             ELSE IF q % 2 = 0 THEN q ELSE q + 1
    IN  [rem |-> x - n * y, quo |-> n % 8]

Exact(v) == [exact |-> TRUE, v |-> v]

Inexact == [exact |-> FALSE, v |-> 0]

Neg(f) == [f EXCEPT !.v = -f.v]

\* sin(glm::radians(d)) and cos(glm::radians(d)) for whole |d| <= 45
SinDeg(d) == IF d = 0 THEN Exact(0) ELSE Inexact

CosDeg(d) == IF d = 0 THEN Exact(1) ELSE Inexact

\* sind for x >= 0 (lines 115-127)
SindNonNegative(x) ==
    LET rq == Remquo(Abs(x), 90)
    IN  CASE rq.quo % 4 = 0 -> SinDeg(rq.rem)
          [] rq.quo % 4 = 1 -> CosDeg(rq.rem)
          [] rq.quo % 4 = 2 -> Neg(SinDeg(rq.rem))
          [] rq.quo % 4 = 3 -> Neg(CosDeg(rq.rem))

sind(x) == IF x < 0 THEN Neg(SindNonNegative(-x)) ELSE SindNonNegative(x)

cosd(x) == sind(RoundF32(x + 90))

\* the multiples n of 90 degrees tried: around zero and just above 2^25
\* degrees, where 90 * n is a float
QuarterTurns ==
    LET near == -MaxQuarter..MaxQuarter
        far == {(2^(F32Precision + 1)) \div 90 + i : i \in 1..MaxQuarter}
    IN  {n \in near \cup far \cup {-n : n \in far} : RoundF32(90 * n) = 90 * n}

InitTrig ==
    /\ input \in [n : QuarterTurns]
    /\ pc = "call"
    /\ output = Idle
    /\ box = BoxDefault /\ op = Idle

CallTrig ==
    /\ pc = "call"
    /\ output' = [s |-> sind(90 * input.n), c |-> cosd(90 * input.n)]
    /\ pc' = "done"
    /\ UNCHANGED <<box, op, input>>

NextTrig == CallTrig

SpecTrig == InitTrig /\ [][NextTrig]_vars

SinAtQuarter(n) == <<0, 1, 0, -1>>[(n % 4) + 1]

CosAtQuarter(n) == <<1, 0, -1, 0>>[(n % 4) + 1]

\* C8: for every integer n, sind(90*n) is exactly 0, 1, 0, -1 and
\* cosd(90*n) exactly 1, 0, -1, 0 for n mod 4 = 0, 1, 2, 3.
C8_ExactAtQuarterTurns ==
    pc = "done" =>
        /\ output.s = Exact(SinAtQuarter(input.n))
        /\ output.c = Exact(CosAtQuarter(input.n))

\* the part of C8 the code keeps: sind is exact at every multiple of 90
\* degrees that is a float
SindExactAtQuarterTurns ==
    pc = "done" => output.s = Exact(SinAtQuarter(input.n))

(***************************************************************************)
(* Fractal and MengerSponge(n).  The recursion is run on an explicit call  *)
(* stack, output.stack, whose last frame is the running call; a frame      *)
(* holds the call's locals w, position, depth and i, its place in the body *)
(* and, for the record, how many holes it appended and calls it made.      *)
(* Lengths are counted in units of 3^-n, so that the division w /= 3 is    *)
(* exact at every depth up to n.  A hole is recorded by its scale w and    *)
(* its translation.                                                        *)
(***************************************************************************)
NumOffsets == 8         \* glm::vec2 offsets[8]

\* offsets[i] for the 0-based i, with w already divided
Offsets(w) ==
    <<(<<-w, -w>>), (<<-w, 0>>), (<<-w, w>>), (<<0, w>>),
      (<<w, w>>), (<<w, 0>>), (<<w, -w>>), (<<0, -w>>)>>

Add2(p, q) == <<p[1] + q[1], p[2] + q[2]>>

\* the frame of a call Fractal(holes, hole, w, position, depth, maxDepth)
Frame(w, position, depth) ==
    [w |-> w, position |-> position, depth |-> depth, i |-> 0,
     at |-> "enter", appended |-> 0, calls |-> 0]

\* no call has returned yet: depth 0 is the depth of no call
NoFrame == Frame(0, <<0, 0>>, 0)

\* depth == maxDepth
AtMaxDepth(depth, maxDepth) == depth = maxDepth

LoopContinuesSeven(i) == i < NumOffsets - 1

\* i < 8
LoopContinues(i) == i < NumOffsets

Top == output.stack[Len(output.stack)]

SetTop(f) == [output.stack EXCEPT ![Len(output.stack)] = f]

Pop == SubSeq(output.stack, 1, Len(output.stack) - 1)

InitFractal ==
    /\ input \in [n : 1..MaxDepth]
    /\ pc = "call"
    /\ output = [holes |-> <<>>, stack |-> <<>>, last |-> NoFrame]
    /\ box = BoxDefault /\ op = Idle

\* MengerSponge: Fractal(holes, result, 1.0, {0.0f, 0.0f}, 1, n)
StartFractal ==
    /\ pc = "call"
    /\ output' = [output EXCEPT
                     !.stack = <<Frame(3^input.n, <<0, 0>>, 1)>>]
    /\ pc' = "fractal"
    /\ UNCHANGED <<box, op, input>>

\* w /= 3; holes.emplace_back(hole); holes.back().Scale(..).Translate(..)
AppendHole ==
    /\ pc = "fractal"
    /\ Top.at = "enter"
    /\ LET w == Top.w \div 3
       IN  output' = [output EXCEPT
              !.holes = Append(@, [w |-> w, position |-> Top.position]),
              !.stack = SetTop([Top EXCEPT !.w = w, !.at = "test",
                                           !.appended = @ + 1])]
    /\ UNCHANGED <<box, op, input, pc>>

\* if (depth == maxDepth) return;
ReturnAtMaxDepth ==
    /\ pc = "fractal"
    /\ Top.at = "test"
    /\ AtMaxDepth(Top.depth, input.n)
    /\ output' = [output EXCEPT !.stack = Pop, !.last = Top]
    /\ pc' = IF Len(output.stack) = 1 THEN "done" ELSE pc
    /\ UNCHANGED <<box, op, input>>

\* the offsets are set up and the loop starts with i = 0
EnterLoop ==
    /\ pc = "fractal"
    /\ Top.at = "test"
    /\ ~AtMaxDepth(Top.depth, input.n)
    /\ output' = [output EXCEPT !.stack = SetTop([Top EXCEPT !.at = "loop"])]
    /\ UNCHANGED <<box, op, input, pc>>

\* Fractal(holes, hole, w, position + offsets[i], depth + 1, maxDepth); ++i
RecursiveCall ==
    /\ pc = "fractal"
    /\ Top.at = "loop"
    /\ LoopContinues(Top.i)
    /\ output' = [output EXCEPT
          !.stack = Append(
              SetTop([Top EXCEPT !.i = @ + 1, !.calls = @ + 1]),
              Frame(Top.w, Add2(Top.position, Offsets(Top.w)[Top.i + 1]),
                    Top.depth + 1))]
    /\ UNCHANGED <<box, op, input, pc>>

\* the loop is over and the call returns
ReturnAfterLoop ==
    /\ pc = "fractal"
    /\ Top.at = "loop"
    /\ ~LoopContinues(Top.i)
    /\ output' = [output EXCEPT !.stack = Pop, !.last = Top]
    /\ pc' = IF Len(output.stack) = 1 THEN "done" ELSE pc
    /\ UNCHANGED <<box, op, input>>

NextFractal ==
    \/ StartFractal
    \/ AppendHole
    \/ ReturnAtMaxDepth
    \/ EnterLoop
    \/ RecursiveCall
    \/ ReturnAfterLoop

\* The code is sequential: a call that can take its next step takes it.
SpecFractal == InitFractal /\ [][NextFractal]_vars /\ WF_vars(NextFractal)

\* what holds of the recursion at every moment
FractalShape ==
    /\ \A j \in 1..Len(output.stack) :
          /\ output.stack[j].depth = j
          /\ output.stack[j].depth <= input.n
          /\ output.stack[j].appended <= 1
    /\ output.last # NoFrame =>
          /\ output.last.appended = 1
          /\ output.last.calls =
                IF output.last.depth < input.n THEN NumOffsets ELSE 0
    /\ pc = "done" =>
          /\ output.stack = <<>>
          /\ Len(output.holes) = (8^input.n - 1) \div 7

\* C11: for every n >= 1 the recursion started by MengerSponge(n)
\* terminates; every call appends exactly one hole, a call at depth d < n
\* makes exactly 8 recursive calls, all at depth d + 1, a call at depth n
\* makes none, depth never exceeds n, and on completion holes holds
\* (8^n - 1) / 7 entries.
C11_FractalTerminates == []FractalShape /\ <>(pc = "done")

\* MengerSponge(2) has completed with its 9 holes; the call that returned
\* last is the outermost one, which made 8 calls
C11_Witness ==
    /\ pc = "done"
    /\ input.n = 2
    /\ Len(output.holes) = 9
    /\ output.holes[1] = [w |-> 3, position |-> <<0, 0>>]
    /\ output.holes[9] = [w |-> 1, position |-> <<0, -3>>]
    /\ output.last.depth = 1 /\ output.last.calls = 8

=============================================================================
